---- MODULE Spec2Model ----
(***************************************************************************)
(* Model of the parameter confirmation core of bot-express: class Bot of   *)
(* src/module/bot.js acting on the conversation context it is constructed  *)
(* with, and the sample skill of                                           *)
(* src/sample_skill/test-switch-skill-clear-context.js.                    *)
(*                                                                         *)
(* A JavaScript value is a record [t |-> typeof, v |-> text]; an object    *)
(* used as a map (a parameter container, context.confirmed) is a function  *)
(* whose DOMAIN is the set of its own keys.                                *)
(***************************************************************************)
EXTENDS Naturals, Sequences, FiniteSets, TLC

\* context is this._context of the Bot, a record of the fields the core reads and
\* writes: skill, confirmed, to_confirm, confirming, previous, param_change_history,
\* _pause, _exit, _init, _switch_intent, _sub_parameter, _parent_parameter.
\* last describes the most recent call made on the Bot and how it ended.
VARIABLES context, last

vars == <<context, last>>

(***************************************************************************)
(* Bounds of the model.                                                    *)
(***************************************************************************)
MaxQueue == 3
MaxList == 2
MaxHistory == 2
MaxLog == 2

(***************************************************************************)
(* JavaScript values.                                                      *)
(***************************************************************************)
undefined == [t |-> "undefined", v |-> ""]
null == [t |-> "object", v |-> "null"]
Str(s) == [t |-> "string", v |-> s]
Bool(b) == [t |-> "boolean", v |-> IF b THEN "true" ELSE "false"]
Fn(s) == [t |-> "function", v |-> s]
Num(s) == [t |-> "number", v |-> s]

\* A primitive carries its type in t; an array is [t |-> "array", items |-> <<...>>];
\* any other function is a plain object keyed by its own property names.
Array(items) == [t |-> "array", items |-> items]

isArray(x) == ("t" \in DOMAIN x) /\ x.t = "array"

typeof(x) == IF "t" \in DOMAIN x /\ x.t # "array" THEN x.t ELSE "object"

Truthy(x) ==
    /\ x # undefined
    /\ x # null
    /\ x # Bool(FALSE)
    /\ x # Str("")
    /\ x # Num("0")
    /\ x # Num("NaN")

\* Function.prototype.toString: the source text of the function, a string.
toString(x) == Str(x.v)

ParamNames == {"param_a", "param_b", "param_c"}
ContainerTypes == {"required_parameter", "optional_parameter", "dynamic_parameter"}

\* An object with no own keys.
EmptyObject == [k \in {} |-> undefined]

\* obj[key] of JavaScript: undefined when the key is absent.
Get(obj, key) == IF key \in DOMAIN obj THEN obj[key] ELSE undefined

\* An Error object, and the two ways a call ends.
Error(name, message) == [name |-> Str(name), message |-> Str(message)]

Return(value) == [threw |-> FALSE, value |-> value]

Throw(error) == [threw |-> TRUE, error |-> error]

\* Object.assign(target, source)
ObjectAssign(target, source) ==
    [k \in (DOMAIN target) \cup (DOMAIN source) |->
        IF k \in DOMAIN source THEN source[k] ELSE target[k]]

(***************************************************************************)
(* Array helpers.                                                          *)
(***************************************************************************)
RECURSIVE indexOfFrom(_, _, _)
indexOfFrom(arr, x, i) ==
    IF i > Len(arr) THEN 0
    ELSE IF arr[i] = x THEN i
    ELSE indexOfFrom(arr, x, i + 1)

\* Array.prototype.indexOf, 1-based; 0 stands for JavaScript's -1.
indexOf(arr, x) == indexOfFrom(arr, x, 1)

\* arr.splice(i, 1) with a 1-based index i
splice1(arr, i) == [j \in 1..(Len(arr) - 1) |-> IF j < i THEN arr[j] ELSE arr[j + 1]]

unshift(arr, x) == <<x>> \o arr

push(arr, x) == Append(arr, x)

Count(arr, x) == Cardinality({i \in 1..Len(arr) : arr[i] = x})

(***************************************************************************)
(* The skill of src/sample_skill/test-switch-skill-clear-context.js.       *)
(***************************************************************************)
SwitchIntent ==
    [name |-> Str("handle-pizza-order"), parameters |-> [pizza |-> Str("margherita")]]

SkillSwitchSkill ==
    [required_parameter |->
        [param_a |-> [message_to_confirm |-> [type |-> Str("text"), text |-> Str("param a?")],
                      reaction |-> Fn("switch_if_switch_now")],
         param_b |-> [message_to_confirm |-> [type |-> Str("text"), text |-> Str("param b?")]]],
     clear_context_on_finish |-> Bool(TRUE)]

(***************************************************************************)
(* Parameter Registry.                                                     *)
(***************************************************************************)
\* c.skill.<container> && c.skill.<container>[param_name]
InContainer(c, container, param_name) ==
    /\ container \in DOMAIN c.skill
    /\ param_name \in DOMAIN c.skill[container]

\* check_parameter_type that looks in optional_parameter before required_parameter.
check_parameter_type_OptionalFirst(c, param_name) ==
    IF InContainer(c, "optional_parameter", param_name) THEN "optional_parameter"
    ELSE IF InContainer(c, "required_parameter", param_name) THEN "required_parameter"
    ELSE IF InContainer(c, "dynamic_parameter", param_name) THEN "dynamic_parameter"
    ELSE IF Truthy(c._sub_parameter) THEN "sub_parameter"
    ELSE "not_applicable"

check_parameter_type(c, param_name) ==
    IF InContainer(c, "required_parameter", param_name) THEN "required_parameter"
    ELSE IF InContainer(c, "optional_parameter", param_name) THEN "optional_parameter"
    ELSE IF InContainer(c, "dynamic_parameter", param_name) THEN "dynamic_parameter"
    ELSE IF Truthy(c._sub_parameter) THEN "sub_parameter"
    ELSE "not_applicable"

\* c.skill[c._parent_parameter.type][c._parent_parameter.name].sub_parameter can be
\* dereferenced: every object on the path exists.
ParentHasSubContainer(c) ==
    /\ c._parent_parameter # undefined
    /\ typeof(Get(c._parent_parameter, "type")) = "string"
    /\ typeof(Get(c._parent_parameter, "name")) = "string"
    /\ c._parent_parameter.type.v \in DOMAIN c.skill
    /\ c._parent_parameter.name.v \in DOMAIN c.skill[c._parent_parameter.type.v]
    /\ "sub_parameter" \in
          DOMAIN c.skill[c._parent_parameter.type.v][c._parent_parameter.name.v]

SubContainer(c) ==
    c.skill[c._parent_parameter.type.v][c._parent_parameter.name.v].sub_parameter

NotFound == Error("Error", "Paramter not found in skill.")

CannotReadProperty == Error("TypeError", "Cannot read property of undefined")

get_parameter(c, param_name) ==
    LET type == check_parameter_type(c, param_name)
        param == [name |-> Str(param_name), type |-> Str(type)]
    IN  IF type = "not_applicable" THEN Throw(NotFound)
        ELSE IF type = "sub_parameter"
        THEN IF ~ParentHasSubContainer(c) THEN Throw(CannotReadProperty)
             ELSE IF param_name \in DOMAIN SubContainer(c)
                  THEN Return(ObjectAssign(param, SubContainer(c)[param_name]))
                  ELSE Return(param)
        ELSE Return(ObjectAssign(param, c.skill[type][param_name]))

(***************************************************************************)
(* Confirmation Queue & Store.                                             *)
(***************************************************************************)
\* How a call on the Bot ends: the context it leaves and what it returned or threw.
Done(c, value) == [context |-> c, threw |-> FALSE, value |-> value]

Fail(c, error) == [context |-> c, threw |-> TRUE, error |-> error]

ListNotBooleanOrObject == Error("Error", "list property should be boolean or object.")

\* AddToList with {order: "old"} handled like every other object: added at the front.
AddToList_OldAtFront(c, param_name, list, param_value) ==
    LET arr == IF param_name \in DOMAIN c.confirmed /\ isArray(c.confirmed[param_name])
               THEN c.confirmed[param_name].items
               ELSE <<>>
    IN  Array(unshift(arr, param_value))

\* Lines 428-439: the array confirmed[param_name] after the value is added.
AddToList(c, param_name, list, param_value) ==
    LET arr == IF param_name \in DOMAIN c.confirmed /\ isArray(c.confirmed[param_name])
               THEN c.confirmed[param_name].items
               ELSE <<>>
    IN  IF list = Bool(TRUE) THEN Array(unshift(arr, param_value))
        ELSE IF Get(list, "order") = Str("new") THEN Array(unshift(arr, param_value))
        ELSE IF Get(list, "order") = Str("old") THEN Array(push(arr, param_value))
        ELSE Array(unshift(arr, param_value))

\* AddToPrevious that takes no notice of is_change.
AddToPrevious_Always(prev, param_name, is_change) ==
    [prev EXCEPT !.confirmed = unshift(@, param_name),
                 !.processed = unshift(@, param_name)]

\* Lines 444-448
AddToPrevious(prev, param_name, is_change) ==
    IF ~is_change
    THEN [prev EXCEPT !.confirmed = unshift(@, param_name),
                      !.processed = unshift(@, param_name)]
    ELSE prev

\* RemoveFromToConfirm with splice(index_to_remove): everything from the index on goes.
RemoveFromToConfirm_ToEnd(arr, param_name) ==
    LET index_to_remove == indexOf(arr, param_name)
    IN  IF index_to_remove # 0 THEN SubSeq(arr, 1, index_to_remove - 1) ELSE arr

\* Lines 450-455
RemoveFromToConfirm(arr, param_name) ==
    LET index_to_remove == indexOf(arr, param_name)
    IN  IF index_to_remove # 0 THEN splice1(arr, index_to_remove) ELSE arr

\* Lines 457-461
ClearConfirming(cur, param_name) ==
    IF cur = Str(param_name) THEN null ELSE cur

\* StoreValue that keeps the value a scalar parameter already has.
StoreValue_KeepFirst(c, param_name, list, param_value) ==
    IF Truthy(list) THEN AddToList(c, param_name, list, param_value)
    ELSE IF param_name \in DOMAIN c.confirmed THEN c.confirmed[param_name]
    ELSE param_value

\* StoreValue that starts no array: the first value of a list parameter is stored bare.
StoreValue_NoArrayInit(c, param_name, list, param_value) ==
    IF Truthy(list) /\ param_name \in DOMAIN c.confirmed /\ isArray(c.confirmed[param_name])
    THEN AddToList(c, param_name, list, param_value)
    ELSE param_value

\* Lines 422-442: confirmed[param_name] after the value is stored.
StoreValue(c, param_name, list, param_value) ==
    IF Truthy(list) THEN AddToList(c, param_name, list, param_value) ELSE param_value

\* ListTypeAllowed that lets a list attribute of every type through.
ListTypeAllowed_Any(list) == TRUE

\* typeof param.list === "boolean" || typeof param.list === "object" (line 424)
ListTypeAllowed(list) == typeof(list) = "boolean" \/ typeof(list) = "object"

add_parameter(c, param_name, param_value, is_change) ==
    LET got == get_parameter(c, param_name)
        list == Get(got.value, "list")
    IN  IF got.threw THEN Fail(c, got.error)
        ELSE IF Truthy(list) /\ ~ListTypeAllowed(list)
        THEN Fail(c, ListNotBooleanOrObject)
        ELSE Done([c EXCEPT
                !.confirmed = ObjectAssign(@, [k \in {param_name} |->
                    StoreValue(c, param_name, list, param_value)]),
                !.previous = AddToPrevious(@, param_name, is_change),
                !.to_confirm = RemoveFromToConfirm(@, param_name),
                !.confirming = ClearConfirming(@, param_name)],
             undefined)

(***************************************************************************)
(* Change Log.                                                             *)
(***************************************************************************)
\* Lines 509-528: the copy of the definition with its functions turned to text.
SerializeParam(param_orig) ==
    LET message == Get(param_orig, "message")
        message_to_confirm == Get(param_orig, "message_to_confirm")
        p1 == IF Truthy(message) /\ typeof(message) = "function"
              THEN ObjectAssign(param_orig, [message |-> toString(message)])
              ELSE IF Truthy(message_to_confirm) /\ typeof(message_to_confirm) = "function"
              THEN ObjectAssign(param_orig, [message |-> toString(message_to_confirm)])
              ELSE param_orig
        p2 == IF Truthy(Get(p1, "condition")) /\ typeof(p1.condition) = "function"
              THEN ObjectAssign(p1, [condition |-> toString(p1.condition)])
              ELSE p1
        p3 == IF Truthy(Get(p2, "parser")) /\ typeof(p2.parser) = "function"
              THEN ObjectAssign(p2, [parser |-> toString(p2.parser)])
              ELSE p2
    IN  IF Truthy(Get(p3, "reaction"))
        THEN ObjectAssign(p3, [reaction |-> toString(p3.reaction)])
        ELSE p3

\* The context after this._save_param_change_log(param_type, param_name, param_orig);
\* param_change_history is <<>> both when the field is unset and when it is [].
_save_param_change_log(c, param_type, param_name, param_orig) ==
    [c EXCEPT !.param_change_history =
        unshift(@, [type |-> Str(param_type), name |-> Str(param_name),
                    param |-> SerializeParam(param_orig)])]

(***************************************************************************)
(* change_message                                                          *)
(***************************************************************************)
MessageTargetNotFound == Error("Error", "The parameter to change message not found.")

\* Line 267 writes to this._context.skill[param_type][param_name]: for the type
\* "sub_parameter" the skill has no such container and the write is a TypeError.
change_message(c, param_name, message) ==
    LET param_type == check_parameter_type(c, param_name)
    IN  IF param_type = "not_applicable" THEN Fail(c, MessageTargetNotFound)
        ELSE IF ~InContainer(c, param_type, param_name) THEN Fail(c, CannotReadProperty)
        ELSE Done(_save_param_change_log(
                      [c EXCEPT !.skill[param_type][param_name] =
                                    ObjectAssign(@, [message |-> message])],
                      param_type, param_name, [message |-> message]),
                  undefined)

(***************************************************************************)
(* collect                                                                 *)
(***************************************************************************)
MalformedContainer ==
    Str("Malformed parameter container object. You can pass just 1 parameter.")

InvalidArgument == Error("Error", "Invalid argument.")

\* ContainerToOverride that looks in required_parameter only.
ContainerToOverride_SkipOptional(c, param_name) ==
    IF InContainer(c, "required_parameter", param_name) THEN "required_parameter"
    ELSE "dynamic_parameter"

\* ContainerToOverride that takes every entry for a new dynamic parameter.
ContainerToOverride_AlwaysDynamic(c, param_name) == "dynamic_parameter"

\* Lines 563-579: the container the single entry of parameter_container goes to.
ContainerToOverride(c, param_name) ==
    IF InContainer(c, "required_parameter", param_name) THEN "required_parameter"
    ELSE IF InContainer(c, "optional_parameter", param_name) THEN "optional_parameter"
    ELSE "dynamic_parameter"

OverrideParameter(c, parameter_container, param_name) ==
    LET type == ContainerToOverride(c, param_name)
        old == IF type \in DOMAIN c.skill THEN c.skill[type] ELSE EmptyObject
        merged == [c EXCEPT !.skill =
                      ObjectAssign(@, [k \in {type} |-> ObjectAssign(old, parameter_container)])]
    IN  _save_param_change_log(merged, type, param_name, parameter_container[param_name])

\* Enqueue that never removes the earlier occurrence.
Enqueue_NoRemoval(arr, param_name, dedup) == unshift(arr, param_name)

\* Lines 584-592
Enqueue(arr, param_name, dedup) ==
    LET index_to_remove == indexOf(arr, param_name)
    IN  IF index_to_remove # 0 /\ Truthy(dedup)
        THEN unshift(splice1(arr, index_to_remove), param_name)
        ELSE unshift(arr, param_name)

\* DedupOption with the default turned off.
DedupOption_OffByDefault(options) ==
    IF Get(options, "dedup") = undefined \/ Get(options, "dedup") = null
    THEN Bool(FALSE)
    ELSE options.dedup

\* options.dedup after lines 545-547
DedupOption(options) ==
    IF Get(options, "dedup") = undefined \/ Get(options, "dedup") = null
    THEN Bool(TRUE)
    ELSE options.dedup

\* SingleEntry that lets a container of several entries through.
SingleEntry_OrMore(arg) == Cardinality(DOMAIN arg) >= 1

\* Object.keys(arg).length === 1 (line 555)
SingleEntry(arg) == Cardinality(DOMAIN arg) = 1

collect(c, arg, options) ==
    LET dedup == DedupOption(options)
    IN  IF typeof(arg) = "string"
        THEN Done([c EXCEPT !.to_confirm = Enqueue(@, arg.v, dedup)], undefined)
        ELSE IF typeof(arg) = "object"
        THEN IF arg = null THEN Fail(c, CannotReadProperty)
             ELSE IF ~SingleEntry(arg) THEN Fail(c, MalformedContainer)
             ELSE LET param_name == CHOOSE k \in DOMAIN arg : TRUE
                      c1 == OverrideParameter(c, arg, param_name)
                  IN  Done([c1 EXCEPT !.to_confirm = Enqueue(@, param_name, dedup)],
                           undefined)
        ELSE Fail(c, InvalidArgument)

(***************************************************************************)
(* Flow Controller.                                                        *)
(***************************************************************************)
pause(c) == [c EXCEPT !._pause = TRUE]

\* exit that also abandons the parameter being confirmed.
exit_AbandonsConfirming(c) == [c EXCEPT !._exit = TRUE, !.confirming = null]

exit(c) == [c EXCEPT !._exit = TRUE]

init(c) == [c EXCEPT !._init = TRUE]

InvalidIntent ==
    Error("Error", "Required parameter: 'name' for switch_skill() should be set and string.")

\* ValidIntent without the typeof test.
ValidIntent_AnyTruthyName(intent) == Truthy(Get(intent, "name"))

\* intent.name && typeof intent.name === "string"
ValidIntent(intent) ==
    Truthy(Get(intent, "name")) /\ typeof(Get(intent, "name")) = "string"

\* switch_skill that checks its argument before it exits.
switch_skill_ValidateFirst(c, intent) ==
    IF intent = undefined \/ intent = null THEN Fail(c, CannotReadProperty)
    ELSE IF ~ValidIntent(intent) THEN Fail(c, InvalidIntent)
    ELSE Done([exit(c) EXCEPT !._switch_intent = intent], undefined)

switch_skill(c, intent) ==
    LET c1 == exit(c)
    IN  IF intent = undefined \/ intent = null THEN Fail(c1, CannotReadProperty)
        ELSE IF ~ValidIntent(intent) THEN Fail(c1, InvalidIntent)
        ELSE Done([c1 EXCEPT !._switch_intent = intent], undefined)

(***************************************************************************)
(* Reaction Dispatcher.                                                    *)
(***************************************************************************)
\* What a reaction function of a skill does when it is called with (error, value, bot):
\* the reaction of param_a of the sample skill switches skill on "switch now";
\* "pause_on_error" is a reaction that calls bot.pause() when it is given an error;
\* any other reaction leaves the context alone.
RunReaction(c, fn, error, value) ==
    IF fn = Fn("switch_if_switch_now")
    THEN IF value = Str("switch now") THEN switch_skill(c, SwitchIntent) ELSE Done(c, undefined)
    ELSE IF fn = Fn("pause_on_error")
    THEN IF error # undefined THEN Done(pause(c), undefined) ELSE Done(c, undefined)
    ELSE Done(c, undefined)

NotAFunction == Error("TypeError", "reaction is not a function")

\* One call of a reaction: the function, and the arguments it was given.
Invocation(fn, error, value) == [fn |-> fn, error |-> error, value |-> value]

\* A result together with the reactions that were invoked on the way.
With(result, reactions) == ObjectAssign(result, [reactions |-> reactions])

\* FlowFlagSet as its comment has it: "pause or exit flag", without _init.
FlowFlagSet_WithoutInit(c) == c._pause \/ c._exit

\* Line 474
FlowFlagSet(c) == c._pause \/ c._exit \/ c._init

\* Invoke that hands the reaction no value.
Invoke_WithoutValue(c, fn, error, param_value) ==
    IF typeof(fn) # "function" THEN With(Fail(c, NotAFunction), <<>>)
    ELSE ObjectAssign(With(RunReaction(c, fn, error, undefined),
                           <<Invocation(fn, error, undefined)>>),
                      [observed |-> c])

\* The reaction is handed the bot and this._context (lines 483, 486): observed is the
\* context as it is at that moment.
Invoke(c, fn, error, param_value) ==
    IF typeof(fn) # "function" THEN With(Fail(c, NotAFunction), <<>>)
    ELSE ObjectAssign(With(RunReaction(c, fn, error, param_value),
                           <<Invocation(fn, error, param_value)>>),
                      [observed |-> c])

react(c, error, param_name, param_value) ==
    IF FlowFlagSet(c) THEN With(Done(c, undefined), <<>>)
    ELSE LET got == get_parameter(c, param_name)
         IN  IF got.threw THEN With(Fail(c, got.error), <<>>)
             ELSE IF Truthy(Get(got.value, "reaction"))
             THEN Invoke(c, got.value.reaction, error, param_value)
             ELSE IF Truthy(Get(c.skill, "reaction_" \o param_name))
             THEN Invoke(c, c.skill["reaction_" \o param_name], error, param_value)
             ELSE With(Done(c, undefined), <<>>)

(***************************************************************************)
(* Parser Dispatcher.                                                      *)
(***************************************************************************)
ParserNotFound == Error("Error", "Parser not found.")

ValueNotSet == Error("Error", "Value is not set.")

ParserObjectInvalid ==
    Error("Error", "Parser object is invalid. Required property: type not found.")

ParserInvalid == Error("Error", "Parser for the parameter is invalid.")

\* Lines 396-397: the parser object after the policy is completed.
WithPolicy(parser, param_name) ==
    LET policy == IF Truthy(Get(parser, "policy")) THEN parser.policy ELSE EmptyObject
        parameter_name == IF Truthy(Get(policy, "parameter_name"))
                          THEN policy.parameter_name
                          ELSE Str(param_name)
    IN  ObjectAssign(parser,
            [policy |-> ObjectAssign(policy, [parameter_name |-> parameter_name])])

\* Line 503 copies a definition with Object.assign({}, param_orig), one level deep: a
\* parser that is an object stays the same object in the definition the skill holds
\* (lines 566, 571, 577) and in the record of the collect call that brought it. That
\* record is the newest one of the parameter that has this parser; 0 when the
\* definition did not come through collect.
RECURSIVE SharingRecordFrom(_, _, _, _, _)
SharingRecordFrom(history, type, name, parser, i) ==
    IF i > Len(history) THEN 0
    ELSE IF /\ history[i].type = type
            /\ history[i].name = name
            /\ "parser" \in DOMAIN history[i].param
            /\ history[i].param.parser = parser
    THEN i
    ELSE SharingRecordFrom(history, type, name, parser, i + 1)

SharingRecord(c, param, param_name) ==
    SharingRecordFrom(c.param_change_history, param.type, Str(param_name), param.parser, 1)

\* The parser object is the one the skill holds, so completing its policy shows in
\* the definition of the parameter, and in the change record that shares the object.
StoreParser(c, param, param_name, parser) ==
    LET i == SharingRecord(c, param, param_name)
        c1 == IF param.type.v \in ContainerTypes
              THEN [c EXCEPT !.skill[param.type.v][param_name].parser = parser]
              ELSE [c EXCEPT !.skill[c._parent_parameter.type.v][c._parent_parameter.name.v]
                                  .sub_parameter[param_name].parser = parser]
    IN  IF i = 0 THEN c1 ELSE [c1 EXCEPT !.param_change_history[i].param.parser = parser]

\* Lines 354-361: the parser of the parameter, undefined when there is none.
ResolveParser(c, param, param_name) ==
    IF Truthy(Get(param, "parser")) THEN param.parser
    ELSE IF Truthy(Get(c.skill, "parse_" \o param_name)) THEN c.skill["parse_" \o param_name]
    ELSE undefined

\* NotSet taken as "the value is falsy".
NotSet_Falsy(param_value) == ~Truthy(param_value)

\* Line 366
NotSet(param_value) ==
    param_value = undefined \/ param_value = null \/ param_value = Str("")

\* outcome is what the parser that is called does with the value: Return(v) or
\* Throw(e). It is the skill's or the parser library's code, not the core's. The
\* result of a call that got as far as the parser carries that outcome.
parse_parameter(c, param_name, param_value, strict, outcome) ==
    LET got == get_parameter(c, param_name)
        parser == ResolveParser(c, got.value, param_name)
        ended(c1) == ObjectAssign(IF outcome.threw THEN Fail(c1, outcome.error)
                                  ELSE Done(c1, outcome.value),
                                  [outcome |-> outcome])
    IN  IF got.threw THEN Fail(c, got.error)
        ELSE IF parser = undefined
        THEN IF strict THEN Fail(c, ParserNotFound)
             ELSE IF NotSet(param_value) THEN Fail(c, ValueNotSet)
             ELSE Done(c, param_value)
        ELSE IF typeof(parser) = "function" THEN ended(c)
        ELSE IF typeof(parser) = "string" THEN ended(c)
        ELSE IF typeof(parser) = "object"
        THEN IF ~Truthy(Get(parser, "type")) THEN Fail(c, ParserObjectInvalid)
             ELSE ended(StoreParser(c, got.value, param_name, WithPolicy(parser, param_name)))
        ELSE Fail(c, ParserInvalid)

(***************************************************************************)
(* apply_parameter                                                         *)
(***************************************************************************)
\* IsRejection that takes every error for a rejection of the value.
IsRejection_Always(e) == TRUE

\* e.name === "Error" (line 315)
IsRejection(e) == Get(e, "name") = Str("Error")

\* apply_parameter that takes the reaction before it adds the parameter.
apply_parameter_ReactionFirst(c, param_name, param_value, parse, react_, outcome) ==
    LET parsed == IF parse THEN parse_parameter(c, param_name, param_value, FALSE, outcome)
                  ELSE Done(c, param_value)
        rethrown == parsed.threw /\ ~IsRejection(parsed.error)
        parse_error == IF parsed.threw THEN parsed.error ELSE undefined
        value == IF parsed.threw THEN param_value ELSE parsed.value
        reacted == IF react_ THEN react(parsed.context, parse_error, param_name, value)
                   ELSE With(Done(parsed.context, undefined), <<>>)
        added == add_parameter(reacted.context, param_name, value, FALSE)
        result == IF rethrown THEN With(Fail(parsed.context, parsed.error), <<>>)
                  ELSE IF reacted.threw THEN reacted
                  ELSE ObjectAssign(reacted, added)
    IN  ObjectAssign(result, [parse_error |-> IF rethrown THEN undefined ELSE parse_error,
                              outcome |-> Get(parsed, "outcome")])

\* apply_parameter that adds the parameter only while no flow flag is set.
apply_parameter_CommitGated(c, param_name, param_value, parse, react_, outcome) ==
    LET parsed == IF parse THEN parse_parameter(c, param_name, param_value, FALSE, outcome)
                  ELSE Done(c, param_value)
        rethrown == parsed.threw /\ ~IsRejection(parsed.error)
        parse_error == IF parsed.threw THEN parsed.error ELSE undefined
        value == IF parsed.threw THEN param_value ELSE parsed.value
        added == IF FlowFlagSet(parsed.context) THEN Done(parsed.context, undefined)
                 ELSE add_parameter(parsed.context, param_name, value, FALSE)
        result == IF rethrown THEN With(Fail(parsed.context, parsed.error), <<>>)
                  ELSE IF added.threw THEN With(added, <<>>)
                  ELSE IF react_ THEN react(added.context, parse_error, param_name, value)
                  ELSE With(added, <<>>)
    IN  ObjectAssign(result, [parse_error |-> IF rethrown THEN undefined ELSE parse_error,
                              outcome |-> Get(parsed, "outcome")])

apply_parameter(c, param_name, param_value, parse, react_, outcome) ==
    LET parsed == IF parse THEN parse_parameter(c, param_name, param_value, FALSE, outcome)
                  ELSE Done(c, param_value)
        rethrown == parsed.threw /\ ~IsRejection(parsed.error)
        parse_error == IF parsed.threw THEN parsed.error ELSE undefined
        value == IF parsed.threw THEN param_value ELSE parsed.value
        added == add_parameter(parsed.context, param_name, value, FALSE)
        result == IF rethrown THEN With(Fail(parsed.context, parsed.error), <<>>)
                  ELSE IF added.threw THEN With(added, <<>>)
                  ELSE IF react_ THEN react(added.context, parse_error, param_name, value)
                  ELSE With(added, <<>>)
    IN  ObjectAssign(result, [parse_error |-> IF rethrown THEN undefined ELSE parse_error,
                              outcome |-> Get(parsed, "outcome")])

(***************************************************************************)
(* The state machine: a Bot is constructed with a context (line 31), then  *)
(* its methods are called one at a time.                                   *)
(***************************************************************************)
\* A fresh context for a skill: nothing confirmed, no flag set.
NewContext(skill, to_confirm, confirming) ==
    [skill |-> skill,
     confirmed |-> EmptyObject,
     to_confirm |-> to_confirm,
     confirming |-> confirming,
     previous |-> [confirmed |-> <<>>, processed |-> <<>>],
     param_change_history |-> <<>>,
     _pause |-> FALSE,
     _exit |-> FALSE,
     _init |-> FALSE,
     _switch_intent |-> undefined,
     _sub_parameter |-> undefined,
     _parent_parameter |-> undefined]

Constructed == [op |-> "constructor", args |-> EmptyObject, threw |-> FALSE,
                result |-> undefined, reactions |-> <<>>, parse_error |-> undefined,
                outcome |-> undefined, observed |-> undefined]

\* The model follows a context while its sequences stay within the bounds.
WithinBounds(c) ==
    /\ Len(c.to_confirm) <= MaxQueue
    /\ Len(c.previous.confirmed) <= MaxHistory
    /\ Len(c.previous.processed) <= MaxHistory
    /\ Len(c.param_change_history) <= MaxLog
    /\ \A n \in DOMAIN c.confirmed :
          isArray(c.confirmed[n]) => Len(c.confirmed[n].items) <= MaxList

\* A call of method op with arguments args that ended as result says: what it returned
\* or threw, the reactions it invoked and the context the last of them was handed,
\* the rejection apply_parameter caught, and what the parser did if one was called.
Call(op, args, result) ==
    /\ WithinBounds(result.context)
    /\ context' = result.context
    /\ last' = [op |-> op, args |-> args, threw |-> result.threw,
                result |-> IF result.threw THEN result.error ELSE result.value,
                reactions |-> IF "reactions" \in DOMAIN result THEN result.reactions ELSE <<>>,
                parse_error |-> Get(result, "parse_error"),
                outcome |-> Get(result, "outcome"),
                observed |-> Get(result, "observed")]

Collect(args, optionss) ==
    \E arg \in args, options \in optionss :
        Call("collect", [arg |-> arg, options |-> options], collect(context, arg, options))

AddParameter(names, values, is_changes) ==
    \E param_name \in names, param_value \in values, is_change \in is_changes :
        Call("add_parameter",
             [param_name |-> param_name, param_value |-> param_value, is_change |-> is_change],
             add_parameter(context, param_name, param_value, is_change))

ApplyParameter(names, values, parses, reacts, outcomes) ==
    \E param_name \in names, param_value \in values, parse \in parses, react_ \in reacts,
       outcome \in outcomes :
        Call("apply_parameter",
             [param_name |-> param_name, param_value |-> param_value, parse |-> parse,
              react |-> react_],
             apply_parameter(context, param_name, param_value, parse, react_, outcome))

ParseParameter(names, values, stricts, outcomes) ==
    \E param_name \in names, param_value \in values, strict \in stricts,
       outcome \in outcomes :
        Call("parse_parameter",
             [param_name |-> param_name, param_value |-> param_value, strict |-> strict],
             parse_parameter(context, param_name, param_value, strict, outcome))

ChangeMessage(names, messages) ==
    \E param_name \in names, message \in messages :
        Call("change_message", [param_name |-> param_name, message |-> message],
             change_message(context, param_name, message))

React(errors, names, values) ==
    \E error \in errors, param_name \in names, param_value \in values :
        Call("react", [error |-> error, param_name |-> param_name, param_value |-> param_value],
             react(context, error, param_name, param_value))

SwitchSkill(intents) ==
    \E intent \in intents :
        Call("switch_skill", [intent |-> intent], switch_skill(context, intent))

Pause == Call("pause", EmptyObject, Done(pause(context), undefined))

Exit == Call("exit", EmptyObject, Done(exit(context), undefined))

InitCall == Call("init", EmptyObject, Done(init(context), undefined))

CheckParameterType(names) ==
    \E param_name \in names :
        Call("check_parameter_type", [param_name |-> param_name],
             Done(context, Str(check_parameter_type(context, param_name))))

GetParameter(names) ==
    \E param_name \in names :
        LET got == get_parameter(context, param_name)
        IN  Call("get_parameter", [param_name |-> param_name],
                 IF got.threw THEN Fail(context, got.error) ELSE Done(context, got.value))

(***************************************************************************)
(* SpecQueue: the confirmation queue under collect and add_parameter.      *)
(***************************************************************************)
Dedup == {EmptyObject, [dedup |-> Bool(FALSE)]}

PlainParameter == [message_to_confirm |-> [type |-> Str("text"), text |-> Str("param c?")]]

QueueArgs == {Str(n) : n \in ParamNames} \cup {[param_c |-> PlainParameter]}

InitQueue ==
    /\ context \in {NewContext(SkillSwitchSkill, <<>>, null),
                    NewContext(SkillSwitchSkill, <<"param_a", "param_b">>, Str("param_a"))}
    /\ last = Constructed

NextQueue ==
    \/ Collect(QueueArgs, Dedup)
    \/ AddParameter(ParamNames, {Str("hello")}, BOOLEAN)

SpecQueue == InitQueue /\ [][NextQueue]_vars

\* The entries of arr other than x, in their order.
Others(arr, x) == SelectSeq(arr, LAMBDA e : e # x)

NoDuplicates(arr) == \A i, j \in 1..Len(arr) : arr[i] = arr[j] => i = j

\* The step is a call of add_parameter that returned.
AddParameterReturned == last'.op = "add_parameter" /\ ~last'.threw

\* C4 as claimed: after add_parameter(name, value, is_change) returns, to_confirm does
\* not contain name, and confirming is null if it was name before the call.
C4_Original ==
    [][AddParameterReturned =>
        LET name == last'.args.param_name
        IN  /\ Count(context'.to_confirm, name) = 0
            /\ (context.confirming = Str(name) => context'.confirming = null)]_vars

\* C4 amended: add_parameter(name, value, is_change) removes the first occurrence of
\* name from to_confirm and no other entry, for is_change true and false alike, so
\* to_confirm no longer contains name when it held it at most once (a queue built
\* with dedup:false keeps its later occurrences); confirming is null afterwards if
\* it was name before the call and is unchanged otherwise.
C4_RemovesOneOccurrence ==
    [][AddParameterReturned =>
        LET name == last'.args.param_name
            before == context.to_confirm
            after == context'.to_confirm
            first == CHOOSE i \in 1..Len(before) :
                        before[i] = name /\ \A j \in 1..(i - 1) : before[j] # name
        IN  /\ Count(before, name) = 0 => after = before
            /\ Count(before, name) > 0 =>
                  /\ Len(after) = Len(before) - 1
                  /\ SubSeq(before, 1, first - 1) = SubSeq(after, 1, first - 1)
                  /\ SubSeq(before, first + 1, Len(before)) = SubSeq(after, first, Len(after))
            /\ Count(before, name) <= 1 => Count(after, name) = 0
            /\ context'.confirming =
                  IF context.confirming = Str(name) THEN null ELSE context.confirming]_vars

\* add_parameter with is_change set returned and a later occurrence of the name is
\* still queued.
C4_Witness ==
    /\ last.op = "add_parameter"
    /\ ~last.threw
    /\ last.args.is_change
    /\ Count(context.to_confirm, last.args.param_name) > 0
    /\ context.confirming = null

\* The step is a call collect(x) with the default dedup option that returned.
CollectNameDefault ==
    /\ last'.op = "collect"
    /\ ~last'.threw
    /\ typeof(last'.args.arg) = "string"
    /\ last'.args.options = EmptyObject

\* to_confirm after the same collect call is made a second time.
CollectedTwice == collect(context', last'.args.arg, last'.args.options).context.to_confirm

\* C5 as claimed: collect("x") twice in a row with the default dedup leaves "x" in
\* to_confirm exactly once, at index 0, the other entries in their order.
C5_Original ==
    [][CollectNameDefault =>
        LET x == last'.args.arg.v
        IN  /\ Count(CollectedTwice, x) = 1
            /\ CollectedTwice[1] = x
            /\ Others(CollectedTwice, x) = Others(context.to_confirm, x)]_vars

\* C5 amended: collect("x") twice in a row with the default dedup leaves "x" at index
\* 0 with the other entries in their order, the second call changing nothing; "x" is
\* then in to_confirm exactly once when it was there at most once before the two calls
\* (of several earlier occurrences each call removes only the first).
C5_TwiceIsOnce ==
    [][CollectNameDefault =>
        LET x == last'.args.arg.v
            n == Count(context.to_confirm, x)
        IN  /\ CollectedTwice = context'.to_confirm
            /\ CollectedTwice[1] = x
            /\ Others(CollectedTwice, x) = Others(context.to_confirm, x)
            /\ Count(CollectedTwice, x) = IF n <= 1 THEN 1 ELSE n]_vars

\* collect was called with the default dedup for a name queued among two others: the
\* name is at the front, once, and the same call made again changes nothing.
C5_Witness ==
    /\ last.op = "collect"
    /\ ~last.threw
    /\ last.args = [arg |-> Str("param_c"), options |-> EmptyObject]
    /\ Len(context.to_confirm) = 3
    /\ context.to_confirm[1] = "param_c"
    /\ Count(context.to_confirm, "param_c") = 1
    /\ collect(context, last.args.arg, last.args.options).context = context

\* The step is a call of collect with the default dedup option that returned.
CollectDefault ==
    /\ last'.op = "collect"
    /\ ~last'.threw
    /\ "dedup" \notin DOMAIN last'.args.options

\* C6 as claimed: right after a collect() call with the default dedup, to_confirm has
\* no duplicate entries, whatever calls came before.
C6_Original ==
    [][CollectDefault => NoDuplicates(context'.to_confirm)]_vars

\* C6 amended: right after a collect() call with the default dedup, to_confirm has no
\* duplicate entries provided it had none before the call; a duplicate only ever
\* appears through a collect call made with dedup:false.
C6_NoNewDuplicates ==
    [][/\ (CollectDefault /\ NoDuplicates(context.to_confirm))
            => NoDuplicates(context'.to_confirm)
       /\ (NoDuplicates(context.to_confirm) /\ ~NoDuplicates(context'.to_confirm))
            => (last'.op = "collect" /\ last'.args.options = [dedup |-> Bool(FALSE)])]_vars

\* A collect call with the default dedup re-queued a name that add_parameter had
\* taken out of a full queue, and the queue has no duplicate.
C6_Witness ==
    /\ last.op = "collect"
    /\ last.args.options = EmptyObject
    /\ Len(context.to_confirm) = 3
    /\ NoDuplicates(context.to_confirm)
    /\ context.previous.confirmed # <<>>

C21_QueuedNamesAreDefined ==
    [][/\ (/\ last'.op = "collect"
           /\ typeof(last'.args.arg) = "string"
           /\ \A type \in ContainerTypes : ~InContainer(context, type, last'.args.arg.v))
             => (last'.threw /\ context'.to_confirm = context.to_confirm)
       /\ \A i \in 1..Len(context'.to_confirm) :
             check_parameter_type(context', context'.to_confirm[i]) # "not_applicable"]_vars

(***************************************************************************)
(* SpecStore: the confirmed-value store under add_parameter, with the      *)
(* definition of param_b overridden through collect's object form.         *)
(***************************************************************************)
ListTrue == [list |-> Bool(TRUE)]

ListNew == [list |-> [order |-> Str("new")]]

ListOld == [list |-> [order |-> Str("old")]]

StoreDefinitions == {PlainParameter, ListTrue, ListNew, ListOld}

StoreValues == {Str("hello"), Str("abc")}

InitStore ==
    /\ context = NewContext(SkillSwitchSkill, <<"param_a", "param_b">>, Str("param_a"))
    /\ last = Constructed

NextStore ==
    \/ Collect({[param_b |-> d] : d \in StoreDefinitions}, {EmptyObject})
    \/ AddParameter({"param_a", "param_b"}, StoreValues, BOOLEAN)

SpecStore == InitStore /\ [][NextStore]_vars

\* The list attribute of the definition a call for name resolves in context c.
ListAttribute(c, name) == Get(get_parameter(c, name).value, "list")

\* The values confirmed[name] holds as an array in context c, none if it is no array.
ItemsOf(c, name) ==
    IF name \in DOMAIN c.confirmed /\ isArray(c.confirmed[name])
    THEN c.confirmed[name].items
    ELSE <<>>

\* C7: each add_parameter call on a list parameter keeps the values committed before
\* it in their order and puts the new value at index 0 when list is true or
\* {order: "new"}, at the last index when list is {order: "old"}.
C7_ListOrder ==
    [][AddParameterReturned =>
        LET name == last'.args.param_name
            value == last'.args.param_value
            list == ListAttribute(context, name)
            after == context'.confirmed[name]
        IN  /\ (list = Bool(TRUE) \/ Get(list, "order") = Str("new")) =>
                  /\ isArray(after)
                  /\ after.items[1] = value
                  /\ Tail(after.items) = ItemsOf(context, name)
            /\ Get(list, "order") = Str("old") =>
                  /\ isArray(after)
                  /\ after.items[Len(after.items)] = value
                  /\ SubSeq(after.items, 1, Len(after.items) - 1) = ItemsOf(context, name)]_vars

\* Two values were committed to a list parameter of order "old": the later one is last.
C7_Witness ==
    /\ last.op = "add_parameter"
    /\ ~last.threw
    /\ last.args.param_name = "param_b"
    /\ last.args.param_value = Str("abc")
    /\ ListAttribute(context, "param_b") = [order |-> Str("old")]
    /\ ItemsOf(context, "param_b") = <<Str("hello"), Str("abc")>>

\* C8: after add_parameter(name, value) on a parameter that is not list-typed,
\* confirmed[name] is the value of that call, whatever was stored before.
C8_LastWriteWins ==
    [][AddParameterReturned =>
        LET name == last'.args.param_name
        IN  ~Truthy(ListAttribute(context, name)) =>
                context'.confirmed[name] = last'.args.param_value]_vars

\* A scalar parameter was committed twice and holds the value of the second commit.
C8_Witness ==
    /\ last.op = "add_parameter"
    /\ ~last.threw
    /\ last.args = [param_name |-> "param_a", param_value |-> Str("abc"), is_change |-> FALSE]
    /\ context.previous.confirmed = <<"param_a", "param_a">>
    /\ context.confirmed["param_a"] = Str("abc")

\* C9 as claimed: in every state, confirmed[name] is an array iff the list attribute
\* of the parameter is truthy.
C9_Original ==
    \A name \in DOMAIN context.confirmed :
        isArray(context.confirmed[name]) <=> Truthy(ListAttribute(context, name))

\* C9 amended: right after add_parameter(name, value) returns, confirmed[name] is an
\* array if the list attribute of the parameter is truthy, and if it is falsy
\* confirmed[name] is the value itself, an array only if the value is one. The shape
\* is settled by the definition in force at the commit: overriding the definition
\* through collect's object form changes nothing in confirmed until the next commit.
C9_ShapeAtCommit ==
    [][/\ AddParameterReturned =>
            LET name == last'.args.param_name
            IN  isArray(context'.confirmed[name]) <=>
                    (Truthy(ListAttribute(context, name)) \/ isArray(last'.args.param_value))
       /\ last'.op = "collect" => context'.confirmed = context.confirmed]_vars

\* param_b was committed as a scalar, overridden to a list parameter and committed
\* again: the second commit replaced the scalar by an array of one value.
C9_Witness ==
    /\ last.op = "add_parameter"
    /\ ~last.threw
    /\ last.args.param_name = "param_b"
    /\ context.previous.processed = <<"param_b", "param_b">>
    /\ Truthy(ListAttribute(context, "param_b"))
    /\ ItemsOf(context, "param_b") = <<Str("hello")>>

\* C24: add_parameter(name, value, is_change=false) puts name once at the front of
\* previous.confirmed and once at the front of previous.processed, the earlier
\* entries following in their order; add_parameter with is_change=true leaves both
\* as they were.
C24_PreviousHistory ==
    [][AddParameterReturned =>
        LET name == last'.args.param_name
        IN  IF last'.args.is_change
            THEN context'.previous = context.previous
            ELSE /\ context'.previous.confirmed = <<name>> \o context.previous.confirmed
                 /\ context'.previous.processed = <<name>> \o context.previous.processed]_vars

\* param_b was committed with is_change set after two plain commits of param_a: the
\* history holds param_a twice and no param_b.
C24_Witness ==
    /\ last.op = "add_parameter"
    /\ ~last.threw
    /\ last.args.param_name = "param_b"
    /\ last.args.is_change
    /\ "param_b" \in DOMAIN context.confirmed
    /\ context.previous.confirmed = <<"param_a", "param_a">>
    /\ context.previous.processed = <<"param_a", "param_a">>

(***************************************************************************)
(* Spec: one turn on a skill with a parser and reactions: apply_parameter, *)
(* react and the flow signals.                                             *)
(***************************************************************************)
\* The sample skill with a parser function on param_b and a reaction_param_b method.
SkillWithParser ==
    [required_parameter |->
        [param_a |-> SkillSwitchSkill.required_parameter.param_a,
         param_b |-> [message_to_confirm |-> [type |-> Str("text"), text |-> Str("param b?")],
                      parser |-> Fn("parse_number")]],
     reaction_param_b |-> Fn("pause_on_error")]

\* What a parser can do with a value: accept it, reject it with a plain Error, or fail
\* with an error of another type.
Rejection == Error("Error", "rejected by parser")

Defect == Error("TypeError", "parser failed")

ParserOutcomes == {Return(Str("123")), Throw(Rejection), Throw(Defect)}

TurnValues == {Str("abc"), Str("switch now")}

Intents == {EmptyObject, [name |-> Str("")], [name |-> Num("1")], [name |-> Str("s")],
            SwitchIntent}

Init ==
    /\ context = NewContext(SkillWithParser, <<"param_a", "param_b">>, Str("param_a"))
    /\ last = Constructed

Next ==
    \/ ApplyParameter(ParamNames, TurnValues, BOOLEAN, BOOLEAN, ParserOutcomes)
    \/ React({undefined, Rejection}, ParamNames, TurnValues)
    \/ SwitchSkill(Intents)
    \/ Pause
    \/ Exit
    \/ InitCall

Spec == Init /\ [][Next]_vars

\* C1 as claimed: when apply_parameter(name, value, parse=true, react=true) has its
\* parser reject the value with a plain Error, the call does not throw, nothing is
\* committed (confirmed[name], the place of name in to_confirm and previous are as
\* before) and the reaction is invoked with an error.
C1_RejectionCommitsNothing ==
    [][(/\ last'.op = "apply_parameter"
        /\ last'.args.parse
        /\ last'.args.react
        /\ last'.parse_error = Rejection) =>
        LET name == last'.args.param_name
        IN  /\ ~last'.threw
            /\ (name \in DOMAIN context'.confirmed) = (name \in DOMAIN context.confirmed)
            /\ Get(context'.confirmed, name) = Get(context.confirmed, name)
            /\ context'.to_confirm = context.to_confirm
            /\ context'.previous = context.previous
            /\ \E i \in 1..Len(last'.reactions) : last'.reactions[i].error # undefined]_vars

\* One of the three flow flags is set before the step.
AFlagWasSet == context._pause \/ context._exit \/ context._init

\* C2: a call of react made while _pause, _exit or _init is set returns without
\* invoking a reaction and leaves every field of the context as it was, also for a
\* name the skill does not define; the react step of apply_parameter is skipped alike.
C2_ReactSkipped ==
    [][/\ (last'.op = "react" /\ AFlagWasSet) =>
            /\ ~last'.threw
            /\ last'.reactions = <<>>
            /\ context' = context
       /\ (last'.op = "apply_parameter" /\ AFlagWasSet) =>
            last'.reactions = <<>>]_vars

\* react was called for a name the skill does not define while only _init was set,
\* and returned.
C2_Witness ==
    /\ last.op = "react"
    /\ ~last.threw
    /\ last.args.param_name = "param_c"
    /\ check_parameter_type(context, "param_c") = "not_applicable"
    /\ context._init
    /\ ~context._pause
    /\ ~context._exit

\* intent.name is there, is a string and is not empty.
NameIsNonEmptyString(intent) ==
    /\ "name" \in DOMAIN intent
    /\ intent.name.t = "string"
    /\ intent.name.v # ""

\* C3: switch_skill(intent) with a missing, empty or non-string name fails with the
\* argument error and leaves _switch_intent as it was; with a non-empty string name it
\* sets _exit and stores the intent, also when the reaction of param_a calls it.
C3_SwitchSkill ==
    [][/\ last'.op = "switch_skill" =>
            LET intent == last'.args.intent
            IN  IF NameIsNonEmptyString(intent)
                THEN /\ ~last'.threw
                     /\ context'._exit
                     /\ context'._switch_intent = intent
                     /\ context'._switch_intent.name = intent.name
                ELSE /\ last'.threw
                     /\ last'.result = InvalidIntent
                     /\ context'._switch_intent = context._switch_intent
       /\ (/\ last'.op \in {"apply_parameter", "react"}
           /\ last'.reactions = <<Invocation(Fn("switch_if_switch_now"),
                                             undefined, Str("switch now"))>>) =>
            /\ ~last'.threw
            /\ context'._exit
            /\ context'._switch_intent.name = Str("handle-pizza-order")]_vars

\* switch_skill failed on a name that is not a string, after the reaction of param_a
\* had switched skill: the intent of the reaction is still stored.
C3_Witness ==
    /\ last.op = "switch_skill"
    /\ last.threw
    /\ last.args.intent = [name |-> Num("1")]
    /\ context._switch_intent = SwitchIntent
    /\ context.previous.confirmed = <<"param_a">>

\* The step is a call apply_parameter(name, value, parse=true, ...) in which a parser
\* was called and failed with an error whose name is not "Error".
ParserFailedWithDefect ==
    /\ last'.op = "apply_parameter"
    /\ last'.args.parse
    /\ "threw" \in DOMAIN last'.outcome
    /\ last'.outcome.threw
    /\ last'.outcome.error.name # Str("Error")

\* C11: when the parser called by apply_parameter(name, value, parse=true, ...) fails
\* with an error that is not a plain Error, apply_parameter throws that same error,
\* confirmed, to_confirm, confirming and previous are as before the call, and no
\* reaction is invoked.
C11_DefectRethrown ==
    [][ParserFailedWithDefect =>
        /\ last'.threw
        /\ last'.result = last'.outcome.error
        /\ context'.confirmed = context.confirmed
        /\ context'.to_confirm = context.to_confirm
        /\ context'.confirming = context.confirming
        /\ context'.previous = context.previous
        /\ last'.reactions = <<>>]_vars

\* After param_a was committed, apply_parameter("param_b", v, true, true) threw the
\* TypeError of the parser: param_b is still queued and not confirmed.
C11_Witness ==
    /\ last.op = "apply_parameter"
    /\ last.args.param_name = "param_b"
    /\ last.args.parse
    /\ last.args.react
    /\ last.threw
    /\ last.result = Defect
    /\ last.outcome = Throw(Defect)
    /\ context.previous.confirmed = <<"param_a">>
    /\ context.to_confirm = <<"param_b">>
    /\ "param_b" \notin DOMAIN context.confirmed

\* C13: in an apply_parameter call that invokes a reaction, the reaction is invoked
\* once, after the parser (if called) has ended and after the commit: it is given the
\* value the parser returned (the raw value and the error if the parser rejected it),
\* and the context it observes already has that value in confirmed[name], the name
\* at the front of previous.confirmed and previous.processed, the first occurrence of
\* the name gone from to_confirm (so none left when it was queued once) and
\* confirming not equal to the name; the flow flags it observes are those from before
\* the call.
C13_ParseCommitReact ==
    [][(last'.op = "apply_parameter" /\ last'.reactions # <<>>) =>
        LET name == last'.args.param_name
            seen == last'.observed
            given == last'.reactions[1]
            parser_called == "threw" \in DOMAIN last'.outcome
            before == Count(context.to_confirm, name)
        IN  /\ Len(last'.reactions) = 1
            /\ (parser_called /\ ~last'.outcome.threw) =>
                    (given.value = last'.outcome.value /\ given.error = undefined)
            /\ (parser_called /\ last'.outcome.threw) =>
                    (given.value = last'.args.param_value /\ given.error = last'.outcome.error)
            /\ ~parser_called =>
                    (given.value = last'.args.param_value /\ given.error = undefined)
            /\ name \in DOMAIN seen.confirmed
            /\ seen.confirmed[name] = given.value
            /\ seen.previous.confirmed = <<name>> \o context.previous.confirmed
            /\ seen.previous.processed = <<name>> \o context.previous.processed
            /\ Count(seen.to_confirm, name) = IF before = 0 THEN 0 ELSE before - 1
            /\ Others(seen.to_confirm, name) = Others(context.to_confirm, name)
            /\ before <= 1 => Count(seen.to_confirm, name) = 0
            /\ seen.confirming # Str(name)
            /\ seen._pause = context._pause
            /\ seen._exit = context._exit
            /\ seen._init = context._init]_vars

\* The parser of param_b rejected "abc": reaction_param_b was given the rejection,
\* observed "abc" already committed and param_b out of the queue, and then paused.
C13_Witness ==
    /\ last.op = "apply_parameter"
    /\ last.args.param_name = "param_b"
    /\ last.outcome = Throw(Rejection)
    /\ last.reactions = <<Invocation(Fn("pause_on_error"), Rejection, Str("abc"))>>
    /\ last.observed.confirmed["param_b"] = Str("abc")
    /\ last.observed.to_confirm = <<"param_a">>
    /\ ~last.observed._pause
    /\ context._pause

\* C25: a switch_skill call that fails with the invalid-argument error has set _exit
\* and left _switch_intent as it was; _exit then stays set, and every react call made
\* after it, directly or as the last step of apply_parameter, invokes no reaction, a
\* direct react call returning with the context unchanged.
C25_FailedSwitchStillExits ==
    [][/\ (last'.op = "switch_skill" /\ last'.threw) =>
            /\ last'.result = InvalidIntent
            /\ context'._exit
            /\ context'._switch_intent = context._switch_intent
       /\ context._exit => context'._exit
       /\ (context._exit /\ last'.op \in {"react", "apply_parameter"}) =>
            last'.reactions = <<>>
       /\ (context._exit /\ last'.op = "react") =>
            (~last'.threw /\ context' = context)]_vars

\* switch_skill({name: ""}) failed in a turn with no other flow signal and no intent
\* stored: _exit is set, and a react call for param_a with "switch now", which would
\* switch skill, now invokes nothing.
C25_Witness ==
    /\ last.op = "switch_skill"
    /\ last.threw
    /\ last.args.intent = [name |-> Str("")]
    /\ context._exit
    /\ ~context._pause
    /\ ~context._init
    /\ context._switch_intent = undefined
    /\ react(context, undefined, "param_a", Str("switch now")).reactions = <<>>
    /\ react(context, undefined, "param_a", Str("switch now")).context = context

\* C27: when a reaction invoked by apply_parameter raises a flow signal, the value
\* it was given is already in confirmed[name], in the context it observed and after
\* the call; an apply_parameter call made while a flow flag is set invokes no
\* reaction and still commits: unless the call throws (the name is not defined, or
\* the parser failed with a defect), confirmed[name] is the parsed or raw value, the
\* name is at the front of previous.confirmed and its first occurrence is gone from
\* to_confirm.
C27_FlagsGateOnlyReaction ==
    [][last'.op = "apply_parameter" =>
        LET name == last'.args.param_name
            parsed == "threw" \in DOMAIN last'.outcome /\ ~last'.outcome.threw
            value == IF parsed THEN last'.outcome.value ELSE last'.args.param_value
            before == Count(context.to_confirm, name)
            raised == ~AFlagWasSet /\ (context'._pause \/ context'._exit \/ context'._init)
        IN  /\ (raised /\ last'.reactions # <<>>) =>
                  /\ last'.reactions[1].value = value
                  /\ last'.observed.confirmed[name] = value
                  /\ context'.confirmed[name] = value
                  /\ Count(context'.to_confirm, name) = IF before = 0 THEN 0 ELSE before - 1
            /\ AFlagWasSet =>
                  /\ last'.reactions = <<>>
                  /\ last'.threw <=>
                        \/ \A type \in ContainerTypes : ~InContainer(context, type, name)
                        \/ ParserFailedWithDefect
                  /\ ~last'.threw =>
                        /\ name \in DOMAIN context'.confirmed
                        /\ context'.confirmed[name] = value
                        /\ context'.previous.confirmed = <<name>> \o context.previous.confirmed
                        /\ Count(context'.to_confirm, name) =
                              IF before = 0 THEN 0 ELSE before - 1]_vars

\* After the reaction of param_a switched skill on "switch now",
\* apply_parameter("param_b", "abc", true, true) committed the parsed "123" and took
\* param_b out of the queue without invoking reaction_param_b.
C27_Witness ==
    /\ last.op = "apply_parameter"
    /\ last.args = [param_name |-> "param_b", param_value |-> Str("abc"),
                    parse |-> TRUE, react |-> TRUE]
    /\ ~last.threw
    /\ last.reactions = <<>>
    /\ context._exit
    /\ context._switch_intent = SwitchIntent
    /\ context.confirmed = [param_a |-> Str("switch now"), param_b |-> Str("123")]
    /\ context.previous.confirmed = <<"param_b", "param_a">>
    /\ context.to_confirm = <<>>

(***************************************************************************)
(* SpecRegistry: classification and resolution of names, in a plain        *)
(* context and inside the sub-parameter context of a parent parameter.     *)
(***************************************************************************)
\* The sample skill with a sub_parameter container under param_a.
SkillWithSubParameter ==
    [required_parameter |->
        [param_a |-> [message_to_confirm |-> [type |-> Str("text"), text |-> Str("param a?")],
                      sub_parameter |-> [param_c |-> PlainParameter]],
         param_b |-> SkillSwitchSkill.required_parameter.param_b]]

\* A context in which the sub-parameters of parent are being confirmed.
SubParameterContext(skill, parent) ==
    [NewContext(skill, <<>>, null) EXCEPT
        !._sub_parameter = Bool(TRUE),
        !._parent_parameter = [type |-> Str("required_parameter"), name |-> Str(parent)]]

RegistryNames == ParamNames \cup {"param_d"}

InitRegistry ==
    /\ context \in {NewContext(SkillSwitchSkill, <<"param_a", "param_b">>, Str("param_a")),
                    NewContext(SkillWithSubParameter, <<"param_a", "param_b">>, Str("param_a")),
                    SubParameterContext(SkillWithSubParameter, "param_a"),
                    SubParameterContext(SkillWithSubParameter, "param_b")}
    /\ last = Constructed

NextRegistry ==
    \/ CheckParameterType(RegistryNames)
    \/ GetParameter(RegistryNames)
    \/ Collect(QueueArgs, {EmptyObject})

SpecRegistry == InitRegistry /\ [][NextRegistry]_vars

\* name is a key of no parameter container of the skill of context c: of none of the
\* three top-level containers and of no sub_parameter container of a definition.
InNoContainer(c, name) ==
    /\ \A type \in ContainerTypes : ~InContainer(c, type, name)
    /\ \A type \in ContainerTypes \cap DOMAIN c.skill :
          \A parent \in DOMAIN c.skill[type] :
              "sub_parameter" \in DOMAIN c.skill[type][parent] =>
                  name \notin DOMAIN c.skill[type][parent].sub_parameter

\* C10 as claimed: for a name in no parameter container, check_parameter_type returns
\* "not_applicable" and get_parameter fails with the parameter-not-found error, in
\* every context.
C10_UnknownNameNotApplicable ==
    /\ (last.op = "check_parameter_type" /\ InNoContainer(context, last.args.param_name))
          => last.result = Str("not_applicable")
    /\ (last.op = "get_parameter" /\ InNoContainer(context, last.args.param_name))
          => (last.threw /\ last.result = NotFound)

(***************************************************************************)
(* SpecParser: parse_parameter and apply_parameter on a skill whose         *)
(* parameters have parsers of every shape.                                 *)
(***************************************************************************)
DialogflowParser == [type |-> Str("dialogflow")]

\* param_a has no parser, param_b a parser object, param_c a parser object without
\* type, param_d a parser that is neither function, string nor object, param_e no
\* parser of its own but a parse_param_e method on the skill.
SkillWithParsers ==
    [required_parameter |->
        [param_a |-> SkillSwitchSkill.required_parameter.param_b,
         param_b |-> [parser |-> DialogflowParser, reaction |-> Fn("pause_on_error")]],
     optional_parameter |->
        [param_c |-> [parser |-> EmptyObject, reaction |-> Fn("pause_on_error")],
         param_d |-> [parser |-> Num("1")],
         param_e |-> PlainParameter],
     parse_param_e |-> Fn("parse_number")]

\* The names of the skill's parameters, and one it does not define.
ParserNames == {"param_a", "param_b", "param_c", "param_d", "param_e", "param_f"}

ParseValues == {undefined, null, Str(""), Str("abc"), Num("0")}

InitParser ==
    /\ context = NewContext(SkillWithParsers, <<"param_a", "param_b">>, Str("param_a"))
    /\ last = Constructed

NextParser ==
    \/ ParseParameter(ParserNames, ParseValues, BOOLEAN, ParserOutcomes)
    \/ ApplyParameter(ParserNames, {Str("abc")}, {TRUE}, {TRUE}, ParserOutcomes)

SpecParser == InitParser /\ [][NextParser]_vars

\* The definition of name in context c has a parser that is an object without type,
\* or that is neither a function, a string nor an object.
MalformedParser(c, name) ==
    \E type \in ContainerTypes :
        /\ InContainer(c, type, name)
        /\ LET parser == Get(c.skill[type][name], "parser")
           IN  /\ Truthy(parser)
               /\ IF typeof(parser) = "object" THEN ~Truthy(Get(parser, "type"))
                  ELSE typeof(parser) \notin {"function", "string"}

\* The skill of context c defines no parameter of that name.
NotDefined(c, name) == \A type \in ContainerTypes : ~InContainer(c, type, name)

\* The step is a call that parses a value for a parameter whose configuration is
\* defective.
ParsedWithConfigurationDefect ==
    /\ \/ last'.op = "parse_parameter"
       \/ (last'.op = "apply_parameter" /\ last'.args.parse)
    /\ \/ MalformedParser(context, last'.args.param_name)
       \/ NotDefined(context, last'.args.param_name)

\* C12 as claimed: a parser object without type, a parser of an unsupported shape and
\* a parameter that is not found make parse_parameter, and apply_parameter called with
\* parse=true, throw the configuration error: nothing is committed and no reaction
\* is invoked.
C12_ConfigurationDefectPropagates ==
    [][ParsedWithConfigurationDefect =>
        /\ last'.threw
        /\ last'.result \in {ParserObjectInvalid, ParserInvalid, NotFound}
        /\ last'.reactions = <<>>
        /\ context'.confirmed = context.confirmed
        /\ context'.to_confirm = context.to_confirm
        /\ context'.previous = context.previous]_vars

\* The parameter of the step has no parser in its definition and the skill has no
\* parse_<name> method for it.
NoParserConfigured ==
    LET name == last'.args.param_name
    IN  /\ \E type \in ContainerTypes :
              InContainer(context, type, name) /\ "parser" \notin DOMAIN context.skill[type][name]
        /\ ("parse_" \o name) \notin DOMAIN context.skill

\* C19: for a parameter with neither a parser in its definition nor a parse_<name>
\* method on the skill, parse_parameter with strict=true fails with "Parser not
\* found." for every value; with strict=false it fails with "Value is not set." for
\* undefined, null and the empty string and returns every other value unchanged (0
\* included); the context is left as it was.
C19_NoParser ==
    [][(last'.op = "parse_parameter" /\ NoParserConfigured) =>
        LET value == last'.args.param_value
        IN  /\ context' = context
            /\ IF last'.args.strict
               THEN last'.threw /\ last'.result = ParserNotFound
               ELSE IF value \in {undefined, null, Str("")}
               THEN last'.threw /\ last'.result = ValueNotSet
               ELSE ~last'.threw /\ last'.result = value]_vars

\* parse_parameter("param_a", 0, strict=false) returned 0 for the parser-less param_a.
C19_Witness ==
    /\ last.op = "parse_parameter"
    /\ last.args = [param_name |-> "param_a", param_value |-> Num("0"), strict |-> FALSE]
    /\ ~last.threw
    /\ last.result = Num("0")
    /\ last.outcome = undefined
    /\ "parser" \notin DOMAIN context.skill.required_parameter.param_a

(***************************************************************************)
(* SpecApply: apply_parameter without parsing, on a queue that collect     *)
(* builds with and without dedup and on definitions collect overrides.     *)
(***************************************************************************)
\* The sample skill with a reaction_param_b method.
SkillWithReactions ==
    ObjectAssign(SkillSwitchSkill, [reaction_param_b |-> Fn("pause_on_error")])

ApplyArgs == {Str("param_a"), Str("param_b"), [param_a |-> ListTrue]}

InitApply ==
    /\ context = NewContext(SkillWithReactions, <<"param_a", "param_b">>, Str("param_a"))
    /\ last = Constructed

NextApply ==
    \/ Collect(ApplyArgs, Dedup)
    \/ ApplyParameter({"param_a", "param_b"}, {Str("hello"), Str("switch now")}, {FALSE},
                      BOOLEAN, {Return(Str("123"))})
    \/ Pause

SpecApply == InitApply /\ [][NextApply]_vars

\* The step is a call apply_parameter(name, v, parse=false, react=true), made while no
\* flow flag is set, for a required parameter without a parser.
AppliedWithoutParser ==
    /\ last'.op = "apply_parameter"
    /\ ~last'.args.parse
    /\ last'.args.react
    /\ ~AFlagWasSet
    /\ InContainer(context, "required_parameter", last'.args.param_name)
    /\ "parser" \notin DOMAIN context.skill.required_parameter[last'.args.param_name]
    /\ ("parse_" \o last'.args.param_name) \notin DOMAIN context.skill

\* The reaction configured for name in context c, called with no error and value v: the
\* one of the definition, else the reaction_<name> method of the skill, else none.
ReactionsExpected(c, name, v) ==
    IF "reaction" \in DOMAIN c.skill.required_parameter[name]
    THEN <<Invocation(c.skill.required_parameter[name].reaction, undefined, v)>>
    ELSE IF ("reaction_" \o name) \in DOMAIN c.skill
    THEN <<Invocation(c.skill["reaction_" \o name], undefined, v)>>
    ELSE <<>>

\* C14 as claimed: for a required parameter with no parser, apply_parameter(name, v,
\* parse=false, react=true) with no flow flag set results in confirmed[name] = v,
\* to_confirm not containing name, and the configured reaction (if any) being invoked
\* exactly once with an undefined error and value v.
C14_Original ==
    [][AppliedWithoutParser =>
        LET name == last'.args.param_name
            v == last'.args.param_value
        IN  /\ ~last'.threw
            /\ context'.confirmed[name] = v
            /\ Count(context'.to_confirm, name) = 0
            /\ last'.reactions = ReactionsExpected(context, name, v)]_vars

\* C14 amended: for a required parameter with no parser, apply_parameter(name, v,
\* parse=false, react=true) with no flow flag set returns with the configured reaction
\* (if any) invoked exactly once with an undefined error and value v; confirmed[name]
\* is v when the parameter is not list-typed and an array with v put in front of the
\* values committed before when its list attribute is true; the first occurrence of
\* name is gone from to_confirm and the other entries are as before, so to_confirm
\* does not contain name when it held it at most once.
C14_ApplyWithoutParser ==
    [][AppliedWithoutParser =>
        LET name == last'.args.param_name
            v == last'.args.param_value
            list == Get(context.skill.required_parameter[name], "list")
            before == Count(context.to_confirm, name)
        IN  /\ ~last'.threw
            /\ ~Truthy(list) => context'.confirmed[name] = v
            /\ list = Bool(TRUE) =>
                    context'.confirmed[name] = Array(<<v>> \o ItemsOf(context, name))
            /\ Count(context'.to_confirm, name) = IF before = 0 THEN 0 ELSE before - 1
            /\ Others(context'.to_confirm, name) = Others(context.to_confirm, name)
            /\ before <= 1 => Count(context'.to_confirm, name) = 0
            /\ last'.reactions = ReactionsExpected(context, name, v)]_vars

\* apply_parameter("param_a", "switch now", false, true) ran the reaction of param_a,
\* which switched skill: the value is confirmed and param_a is out of the queue.
C14_Witness ==
    /\ last.op = "apply_parameter"
    /\ last.args = [param_name |-> "param_a", param_value |-> Str("switch now"),
                    parse |-> FALSE, react |-> TRUE]
    /\ ~last.threw
    /\ last.reactions = <<Invocation(Fn("switch_if_switch_now"), undefined, Str("switch now"))>>
    /\ context.confirmed["param_a"] = Str("switch now")
    /\ context.to_confirm = <<"param_b">>
    /\ context._switch_intent = SwitchIntent

(***************************************************************************)
(* SpecCollect: the parameter containers and the change log under collect, *)
(* change_message and add_parameter, on a skill with required and optional *)
(* parameters and no dynamic_parameter container yet.                      *)
(***************************************************************************)
SkillWithOptional ==
    [required_parameter |-> SkillSwitchSkill.required_parameter,
     optional_parameter |-> [param_c |-> PlainParameter]]

\* Containers with one entry: for a required, an optional and a new parameter.
SingleContainers ==
    {[param_a |-> PlainParameter], [param_c |-> ListTrue], [param_d |-> PlainParameter]}

\* Containers with no entry and with two.
MalformedContainers ==
    {EmptyObject, [param_a |-> PlainParameter, param_d |-> PlainParameter]}

CollectArgs == {Str("param_b"), Str("param_d")} \cup SingleContainers \cup MalformedContainers

Messages == {[type |-> Str("text"), text |-> Str("changed?")], Fn("message_fn")}

InitCollect ==
    /\ context = NewContext(SkillWithOptional, <<"param_a", "param_b">>, Str("param_a"))
    /\ last = Constructed

NextCollect ==
    \/ Collect(CollectArgs, {EmptyObject})
    \/ ChangeMessage({"param_a", "param_d"}, Messages)
    \/ AddParameter({"param_a", "param_d"}, {Str("hello")}, BOOLEAN)

SpecCollect == InitCollect /\ [][NextCollect]_vars

\* The step is a call collect(arg) with a container object.
CollectedContainer ==
    /\ last'.op = "collect"
    /\ typeof(last'.args.arg) = "object"
    /\ last'.args.arg # null

\* C15: collect({p: def}) for a name p defined in neither required_parameter nor
\* optional_parameter adds p with def to dynamic_parameter (creating the container if
\* absent), prepends exactly one change record of type "dynamic_parameter" and name p
\* to param_change_history, and places p at the front of to_confirm; when p is
\* defined in required_parameter or optional_parameter the entry and the change
\* record go to that container instead and dynamic_parameter is unchanged.
C15_CollectContainer ==
    [][(CollectedContainer /\ Cardinality(DOMAIN last'.args.arg) = 1) =>
        LET p == CHOOSE k \in DOMAIN last'.args.arg : TRUE
            def == last'.args.arg[p]
            target == IF InContainer(context, "required_parameter", p)
                      THEN "required_parameter"
                      ELSE IF InContainer(context, "optional_parameter", p)
                      THEN "optional_parameter"
                      ELSE "dynamic_parameter"
            old == IF target \in DOMAIN context.skill THEN context.skill[target]
                   ELSE EmptyObject
        IN  /\ ~last'.threw
            /\ target \in DOMAIN context'.skill
            /\ DOMAIN context'.skill[target] = DOMAIN old \cup {p}
            /\ context'.skill[target][p] = def
            /\ \A k \in DOMAIN old \ {p} : context'.skill[target][k] = old[k]
            /\ \A type \in ContainerTypes \ {target} :
                  Get(context'.skill, type) = Get(context.skill, type)
            /\ Len(context'.param_change_history) = Len(context.param_change_history) + 1
            /\ Tail(context'.param_change_history) = context.param_change_history
            /\ context'.param_change_history[1].type = Str(target)
            /\ context'.param_change_history[1].name = Str(p)
            /\ context'.to_confirm[1] = p]_vars

\* collect({param_d: ...}) created dynamic_parameter for the new param_d after an
\* override of the optional param_c: two records in the log, param_d asked first.
C15_Witness ==
    /\ last.op = "collect"
    /\ ~last.threw
    /\ last.args.arg = [param_d |-> PlainParameter]
    /\ context.skill.dynamic_parameter = [param_d |-> PlainParameter]
    /\ context.skill.optional_parameter.param_c = ListTrue
    /\ context.param_change_history[1].type = Str("dynamic_parameter")
    /\ context.param_change_history[2].type = Str("optional_parameter")
    /\ context.to_confirm[1] = "param_d"

\* C16: collect(arg) with a container object that has no key or more than one key
\* fails with the malformed-parameter-container error and leaves the skill's
\* parameter containers, param_change_history and to_confirm unchanged.
C16_MalformedContainer ==
    [][(CollectedContainer /\ Cardinality(DOMAIN last'.args.arg) # 1) =>
        /\ last'.threw
        /\ last'.result = MalformedContainer
        /\ context'.skill = context.skill
        /\ context'.param_change_history = context.param_change_history
        /\ context'.to_confirm = context.to_confirm]_vars

\* collect was called with a container of two entries after param_d had been
\* collected: it failed and param_a, one of the two, was not overridden.
C16_Witness ==
    /\ last.op = "collect"
    /\ last.threw
    /\ last.result = MalformedContainer
    /\ Cardinality(DOMAIN last.args.arg) = 2
    /\ context.skill.required_parameter.param_a = SkillSwitchSkill.required_parameter.param_a
    /\ Len(context.param_change_history) = 1
    /\ context.to_confirm = <<"param_d", "param_a", "param_b">>

\* C18: starting from a skill in which every name is defined in at most one of
\* required_parameter, optional_parameter and dynamic_parameter, every name is still
\* defined in at most one of them after any sequence of collect, change_message and
\* add_parameter calls.
C18_OneContainerPerName ==
    \A name \in RegistryNames :
        Cardinality({type \in ContainerTypes : InContainer(context, type, name)}) <= 1

\* The new param_d was collected, committed and had its message changed: it is
\* defined in dynamic_parameter and nowhere else.
C18_Witness ==
    /\ last.op = "change_message"
    /\ ~last.threw
    /\ InContainer(context, "dynamic_parameter", "param_d")
    /\ "message" \in DOMAIN context.skill.dynamic_parameter.param_d
    /\ "param_d" \in DOMAIN context.confirmed
    /\ ~InContainer(context, "required_parameter", "param_d")
    /\ ~InContainer(context, "optional_parameter", "param_d")

(***************************************************************************)
(* SpecLog: param_change_history under the calls that write it (collect    *)
(* with a container, change_message) and under parse_parameter, for        *)
(* definitions with and without a parser object.                           *)
(***************************************************************************)
LogArgs == {Str("param_b"), [param_a |-> PlainParameter],
            [param_d |-> [parser |-> DialogflowParser]]}

InitLog ==
    /\ context = NewContext(SkillWithOptional, <<"param_a", "param_b">>, Str("param_a"))
    /\ last = Constructed

NextLog ==
    \/ Collect(LogArgs, {EmptyObject})
    \/ ChangeMessage({"param_a", "param_d"}, Messages)
    \/ ParseParameter({"param_a", "param_d"}, {Str("abc")}, BOOLEAN,
                      {Return(Str("123")), Throw(Rejection)})
    \/ AddParameter({"param_a", "param_d"}, {Str("hello")}, {FALSE})

SpecLog == InitLog /\ [][NextLog]_vars

\* The step is a call that writes the change log: change_message, or collect with a
\* container object, that returned.
WroteChangeLog ==
    /\ ~last'.threw
    /\ \/ last'.op = "change_message"
       \/ (last'.op = "collect" /\ typeof(last'.args.arg) = "object")

\* C20 as claimed: every change_message call and every collect call with a container
\* prepends exactly one record to param_change_history, no other call changes its
\* length, and the log before a call is always the tail end of the log after it: no
\* record already in the log is removed, moved or modified.
C20_LogAppendOnly ==
    [][LET old == context.param_change_history
           new == context'.param_change_history
       IN  /\ Len(new) = Len(old) + (IF WroteChangeLog THEN 1 ELSE 0)
           /\ SubSeq(new, Len(new) - Len(old) + 1, Len(new)) = old]_vars

(***************************************************************************)
(* SpecList: add_parameter on a parameter whose list attribute collect     *)
(* overrides with values other than true, {order: "new"}, {order: "old"}.  *)
(***************************************************************************)
ListOther == [list |-> [order |-> Str("other")]]

ListNoOrder == [list |-> EmptyObject]

ListString == [list |-> Str("yes")]

ListNumber == [list |-> Num("1")]

ListDefinitions == {ListOther, ListNoOrder, ListString, ListNumber, ListOld}

InitList ==
    /\ context = NewContext(SkillSwitchSkill, <<"param_a", "param_b">>, Str("param_a"))
    /\ last = Constructed

NextList ==
    \/ Collect({[param_b |-> d] : d \in ListDefinitions}, {EmptyObject})
    \/ AddParameter({"param_a", "param_b"}, StoreValues, BOOLEAN)

SpecList == InitList /\ [][NextList]_vars

\* The step is a call of add_parameter, ended either way, for a parameter whose list
\* attribute is truthy and none of true, {order: "new"}, {order: "old"}.
AddedToOtherList ==
    /\ last'.op = "add_parameter"
    /\ LET name == last'.args.param_name
       IN  /\ \E type \in ContainerTypes : InContainer(context, type, name)
           /\ Truthy(ListAttribute(context, name))
           /\ ListAttribute(context, name) \notin {Bool(TRUE), ListNew.list, ListOld.list}

\* C22 as claimed: for a parameter whose list attribute is a truthy value other than
\* true, {order: "new"} and {order: "old"}, add_parameter returns and the value is at
\* the front of confirmed[name], before the values committed earlier.
C22_Original ==
    [][AddedToOtherList =>
        LET name == last'.args.param_name
        IN  /\ ~last'.threw
            /\ context'.confirmed[name] =
                  Array(<<last'.args.param_value>> \o ItemsOf(context, name))]_vars

\* C22 amended: for a parameter whose list attribute is a truthy value other than
\* true, {order: "new"} and {order: "old"}: when the attribute is an object (with an
\* unknown order or none) add_parameter returns and the value is at the front of
\* confirmed[name], before the values committed earlier; when it is not an object (a
\* non-empty string, a number) add_parameter fails with "list property should be
\* boolean or object." and leaves the context as it was.
C22_OtherListValues ==
    [][AddedToOtherList =>
        LET name == last'.args.param_name
            list == ListAttribute(context, name)
        IN  IF "t" \notin DOMAIN list
            THEN /\ ~last'.threw
                 /\ context'.confirmed[name] =
                       Array(<<last'.args.param_value>> \o ItemsOf(context, name))
            ELSE /\ last'.threw
                 /\ last'.result = ListNotBooleanOrObject
                 /\ context' = context]_vars

\* param_b got "hello" as a list parameter, was overridden with list: "yes", and
\* add_parameter("param_b", "abc") failed: confirmed.param_b is still ["hello"].
C22_Witness ==
    /\ last.op = "add_parameter"
    /\ last.threw
    /\ last.result = ListNotBooleanOrObject
    /\ last.args.param_name = "param_b"
    /\ last.args.param_value = Str("abc")
    /\ ListAttribute(context, "param_b") = Str("yes")
    /\ ItemsOf(context, "param_b") = <<Str("hello")>>

(***************************************************************************)
(* SpecLookup: classification and resolution on a skill that defines names *)
(* in several containers at once.                                          *)
(***************************************************************************)
Asking(text) == [message_to_confirm |-> [type |-> Str("text"), text |-> Str(text)]]

\* param_b is a required, an optional and a sub-parameter; param_c a sub-parameter of
\* param_a only; param_d an optional and a dynamic parameter; param_e is not defined.
SkillOverlapping ==
    [required_parameter |->
        [param_a |-> [message_to_confirm |-> [type |-> Str("text"), text |-> Str("param a?")],
                      sub_parameter |-> [param_b |-> Asking("sub b?"),
                                         param_c |-> Asking("sub c?")]],
         param_b |-> Asking("required b?")],
     optional_parameter |->
        [param_b |-> Asking("optional b?"),
         param_d |-> Asking("optional d?")],
     dynamic_parameter |->
        [param_d |-> Asking("dynamic d?")]]

LookupNames == {"param_a", "param_b", "param_c", "param_d", "param_e"}

InitLookup ==
    /\ context \in {NewContext(SkillOverlapping, <<"param_a", "param_b">>, Str("param_a")),
                    SubParameterContext(SkillOverlapping, "param_a"),
                    SubParameterContext(SkillOverlapping, "param_b")}
    /\ last = Constructed

NextLookup ==
    \/ CheckParameterType(LookupNames)
    \/ GetParameter(LookupNames)
    \/ Collect({Str("param_a"), Str("param_c"), [param_c |-> Asking("dynamic c?")]},
               {EmptyObject})

SpecLookup == InitLookup /\ [][NextLookup]_vars

\* The classification of name in context c as the lookup order has it.
TypeByLookupOrder(c, name) ==
    IF InContainer(c, "required_parameter", name) THEN "required_parameter"
    ELSE IF InContainer(c, "optional_parameter", name) THEN "optional_parameter"
    ELSE IF InContainer(c, "dynamic_parameter", name) THEN "dynamic_parameter"
    ELSE IF c._sub_parameter = Bool(TRUE) THEN "sub_parameter"
    ELSE "not_applicable"

\* C23: check_parameter_type returns the first of required_parameter,
\* optional_parameter, dynamic_parameter that defines the name, else "sub_parameter"
\* when a parent-parameter context is active, else "not_applicable"; get_parameter
\* returns the definition of that top-level container for a top-level name, and for
\* a name classified as sub_parameter the name and type with the definition stored at
\* skill[parent.type][parent.name].sub_parameter[name].
C23_LookupOrder ==
    /\ last.op = "check_parameter_type" =>
          last.result = Str(TypeByLookupOrder(context, last.args.param_name))
    /\ last.op = "get_parameter" =>
          LET name == last.args.param_name
              type == TypeByLookupOrder(context, name)
              head == [name |-> Str(name), type |-> Str(type)]
              parent == context._parent_parameter
              holder == context.skill[parent.type.v][parent.name.v]
          IN  /\ type \in ContainerTypes =>
                    /\ ~last.threw
                    /\ last.result = ObjectAssign(head, context.skill[type][name])
              /\ (type = "sub_parameter" /\ ~last.threw) =>
                    /\ "sub_parameter" \in DOMAIN holder
                    /\ last.result =
                          IF name \in DOMAIN holder.sub_parameter
                          THEN ObjectAssign(head, holder.sub_parameter[name])
                          ELSE head
              /\ (type = "sub_parameter" /\ last.threw) =>
                    "sub_parameter" \notin DOMAIN holder
              /\ type = "not_applicable" => (last.threw /\ last.result = NotFound)

\* While the sub-parameters of param_a are confirmed, get_parameter("param_c")
\* returned the definition under param_a, and get_parameter would return the
\* required definition for param_b, which is a sub-parameter of param_a as well.
C23_Witness ==
    /\ last.op = "get_parameter"
    /\ ~last.threw
    /\ last.args.param_name = "param_c"
    /\ last.result = ObjectAssign([name |-> Str("param_c"), type |-> Str("sub_parameter")],
                                  Asking("sub c?"))
    /\ context._parent_parameter.name = Str("param_a")
    /\ context.to_confirm = <<"param_c">>
    /\ get_parameter(context, "param_b").value.message_to_confirm.text = Str("required b?")

(***************************************************************************)
(* SpecFlow: every operation of the core on one context, with the flow     *)
(* signals raised in between.                                              *)
(***************************************************************************)
FlowFlags == {"_pause", "_exit", "_init"}

CoreOperations == {"collect", "apply_parameter", "add_parameter", "react", "parse_parameter",
                   "change_message", "switch_skill", "pause", "exit", "init"}

InitFlow ==
    /\ context = NewContext(SkillWithParser, <<"param_a", "param_b">>, Str("param_a"))
    /\ last = Constructed

NextFlow ==
    \/ Collect({Str("param_b")}, {EmptyObject})
    \/ ApplyParameter({"param_a", "param_b"}, {Str("switch now")}, {TRUE}, {TRUE},
                      {Return(Str("123")), Throw(Rejection)})
    \/ AddParameter({"param_b"}, {Str("abc")}, BOOLEAN)
    \/ React({undefined, Rejection}, {"param_a", "param_b"}, {Str("switch now")})
    \/ ParseParameter({"param_b"}, {Str("abc")}, {FALSE}, {Return(Str("123")), Throw(Rejection)})
    \/ ChangeMessage({"param_b"}, {Fn("message_fn")})
    \/ SwitchSkill({EmptyObject, SwitchIntent})
    \/ Pause
    \/ Exit
    \/ InitCall

SpecFlow == InitFlow /\ [][NextFlow]_vars

\* The flag a flow signal raises.
OwnFlag(op) == CASE op = "pause" -> "_pause" [] op = "exit" -> "_exit" [] op = "init" -> "_init"

====
